---- MODULE Spec2Model ----
(***************************************************************************)
(* Agent-Quota: the aggregation pipeline of the quota dashboard.           *)
(*                                                                         *)
(*   app/query.ts          queryProviders   (src/unnamed/part_004:1-37)    *)
(*   app/status-model.ts   parseSections .. (src/unnamed/part_004:39-159)  *)
(*   ui/hooks/useStatusData.ts   refreshNow (React dashboard)              *)
(*   index.ts              refresh          (legacy blessed dashboard)     *)
(*   ui/App.tsx            selection, scroll offset, key handlers          *)
(*   index.ts (--once)     one fan-out, then the exit code                 *)
(*                                                                         *)
(* Representation of strings.  A line is a sequence of tokens, a token is  *)
(* an atomic piece of text ("## ", "ERROR:", " ", "skipped", ...).  A      *)
(* multi-line string is the sequence of its lines, i.e. what split("\n")   *)
(* returns: the empty string is << <<>> >>, one empty line.  Template      *)
(* concatenation is \o on the token level, join() inserts its separator.   *)
(***************************************************************************)
EXTENDS Integers, Sequences, FiniteSets, TLC

VARIABLES impl, providers, state, inflight, fanouts, dropped, timer,
          content, parsed, health, summaries, stage,
          selectedIndex, detailOffset, terminal, shown, depSelected, depMaxOffset,
          lastEvent, runStart, runLen,
          exitCode,
          env, autoRefreshMs,
          healthHistory, lastHistoryKey, layout, panelLines

vars == <<impl, providers, state, inflight, fanouts, dropped, timer,
          content, parsed, health, summaries, stage,
          selectedIndex, detailOffset, terminal, shown, depSelected, depMaxOffset,
          lastEvent, runStart, runLen,
          exitCode,
          env, autoRefreshMs,
          healthHistory, lastHistoryKey, layout, panelLines>>

dashVars == <<impl, providers, state, inflight, fanouts, dropped, timer>>

pureVars == <<content, parsed, health, summaries, stage>>

\* process.env.AGENT_STATUS_REFRESH_MS and the interval computed from it
cfgVars == <<env, autoRefreshMs>>

\* what a paint keeps: the health history and its key, and for the legacy
\* dashboard the boxes of the screen and the line counts they were laid out for
paintVars == <<healthHistory, lastHistoryKey, layout, panelLines>>

\* the view state of ui/App.tsx: selection, scroll offset, terminal size, the
\* frame on screen and the dependency values the effects last ran with
viewVars == <<selectedIndex, detailOffset, terminal, shown, depSelected, depMaxOffset>>

\* the last input event and the current run of 'right' presses
obsVars == <<lastEvent, runStart, runLen>>

\* what a refresh does not touch in either dashboard
stillVars == <<viewVars, obsVars, exitCode, cfgVars>>

restVars == <<stillVars, paintVars>>

(***************************************************************************)
(* Bounds of the model.                                                    *)
(***************************************************************************)
MaxProviders == 3

MaxCycles == 2

MaxLines == 4

MaxSections == 4

MaxPercentLines == 3

(***************************************************************************)
(* String primitives.                                                      *)
(***************************************************************************)
EmptyLine == <<>>

EmptyString == <<EmptyLine>>

Range(s) == {s[i] : i \in 1..Len(s)}

startsWith(line, tok) == Len(line) > 0 /\ line[1] = tok

includes(line, tok) == \E i \in 1..Len(line) : line[i] = tok

IsWhitespace(line) == \A i \in 1..Len(line) : line[i] = " "

RECURSIVE trimStart(_)
trimStart(line) ==
  IF line /= <<>> /\ Head(line) = " " THEN trimStart(Tail(line)) ELSE line

RECURSIVE trimEnd(_)
trimEnd(line) ==
  IF line /= <<>> /\ line[Len(line)] = " "
  THEN trimEnd(SubSeq(line, 1, Len(line) - 1))
  ELSE line

trim(line) == trimEnd(trimStart(line))

\* content.trim() === "" : nothing but whitespace and line breaks
trimIsEmpty(text) == \A k \in 1..Len(text) : IsWhitespace(text[k])

\* line.slice(3) of a line that starts with the three characters "## "
slice3(line) == Tail(line)

\* blocks.join("\n\n"): consecutive blocks are separated by one empty line
RECURSIVE joinBlocks(_)
joinBlocks(blocks) ==
  IF blocks = <<>> THEN EmptyString
  ELSE IF Len(blocks) = 1 THEN blocks[1]
  ELSE blocks[1] \o <<EmptyLine>> \o joinBlocks(Tail(blocks))

\* String.prototype.toLowerCase on the tokens that are names
toLowerCase(tok) ==
  CASE tok = "Copilot" -> "copilot"
    [] tok = "Codex" -> "codex"
    [] tok = "CODEX" -> "codex"
    [] tok = "Gemini" -> "gemini"
    [] tok = "Amp" -> "amp"
    [] tok = "General" -> "general"
    [] tok = "Remaining" -> "remaining"
    [] OTHER -> tok

lowerLine(line) == [i \in 1..Len(line) |-> toLowerCase(line[i])]

(***************************************************************************)
(* app/status-model.ts                                                     *)
(***************************************************************************)
NewSection(name) == [name |-> name, lines |-> <<>>, status |-> "ok"]

\* mutant: the loop skips empty lines
RECURSIVE splitLoopSkipEmpty(_, _, _)
splitLoopSkipEmpty(rest, sections, active) ==
  IF rest = <<>> THEN sections \o active
  ELSE LET line == Head(rest) IN
    IF startsWith(line, "## ")
    THEN splitLoopSkipEmpty(Tail(rest), sections \o active,
                            <<NewSection(trim(slice3(line)))>>)
    ELSE IF line = <<>> THEN splitLoopSkipEmpty(Tail(rest), sections, active)
    ELSE LET cur == IF active = <<>> THEN NewSection(<<"General">>) ELSE active[1]
         IN splitLoopSkipEmpty(Tail(rest), sections,
                               <<[cur EXCEPT !.lines = Append(@, line)]>>)

\* the for-loop of parseSections; active is <<>> (null) or <<section>>
RECURSIVE splitLoop(_, _, _)
splitLoop(rest, sections, active) ==
  IF rest = <<>> THEN sections \o active
  ELSE LET line == Head(rest) IN
    IF startsWith(line, "## ")
    THEN splitLoop(Tail(rest), sections \o active,
                   <<NewSection(trim(slice3(line)))>>)
    ELSE LET cur == IF active = <<>> THEN NewSection(<<"General">>) ELSE active[1]
         IN splitLoop(Tail(rest), sections,
                      <<[cur EXCEPT !.lines = Append(@, line)]>>)

IsErrorLine(line) == startsWith(line, "ERROR:") \/ includes(line, "unavailable")

IsSkippedLine(line) == includes(line, "skipped")

\* mutant: the 'skipped' test runs before the error test
classifySkippedFirst(section) ==
  IF \E i \in 1..Len(section.lines) : IsSkippedLine(section.lines[i])
  THEN [section EXCEPT !.status = "warning"]
  ELSE IF \E i \in 1..Len(section.lines) : IsErrorLine(section.lines[i])
  THEN [section EXCEPT !.status = "error"]
  ELSE section

\* the classification loop of parseSections, for one section
classify(section) ==
  IF \E i \in 1..Len(section.lines) : IsErrorLine(section.lines[i])
  THEN [section EXCEPT !.status = "error"]
  ELSE IF \E i \in 1..Len(section.lines) : IsSkippedLine(section.lines[i])
  THEN [section EXCEPT !.status = "warning"]
  ELSE section

IsBlankContent(text) == trimIsEmpty(text)

parseSections(text) ==
  IF IsBlankContent(text) THEN <<>>
  ELSE LET sections == splitLoop(text, <<>>, <<>>)
       IN [k \in 1..Len(sections) |-> classify(sections[k])]

\* Array.prototype.find: <<>> for undefined, else <<first match>>
getProviderSection(sections, providerLabel) ==
  LET needle == toLowerCase(providerLabel)
      hits == {k \in 1..Len(sections) : lowerLine(sections[k].name) = <<needle>>}
  IN IF hits = {} THEN <<>>
     ELSE <<sections[CHOOSE k \in hits : \A j \in hits : k <= j]>>

\* mutant: every status but warning counts a full point
RECURSIVE points2NotWarning(_)
points2NotWarning(sections) ==
  IF sections = <<>> THEN 0
  ELSE (IF Head(sections).status = "warning" THEN 1 ELSE 2)
       + points2NotWarning(Tail(sections))

\* twice the points of the loop: ok counts 1, warning 0.5
RECURSIVE points2(_)
points2(sections) ==
  IF sections = <<>> THEN 0
  ELSE (CASE Head(sections).status = "ok" -> 2
          [] Head(sections).status = "warning" -> 1
          [] OTHER -> 0) + points2(Tail(sections))

\* mutant: the fraction is cut off instead of rounded
roundTruncates(num, den) == num \div den

\* Math.round(x) for x = num/den >= 0: floor(x + 0.5)
round(num, den) == (2 * num + den) \div (2 * den)

healthScore(sections) ==
  IF Len(sections) = 0 THEN 0
  ELSE round(points2(sections) * 100, 2 * Len(sections))

\* tokens of one to three digits followed by a percent sign
IsPercent(tok) == tok \in {"1%", "40%", "60%", "61%", "80%", "250%"}

\* Number(match[1]): the value of the digits of such a token
Number(tok) ==
  CASE tok = "1%" -> 1
    [] tok = "40%" -> 40
    [] tok = "60%" -> 60
    [] tok = "61%" -> 61
    [] tok = "80%" -> 80
    [] tok = "250%" -> 250

\* the token's last character is a word character (letter, digit, underscore)
endsWithWordChar(tok) == tok \notin {" ", "(3/10)", "## ", "ERROR:"} /\ ~IsPercent(tok)

\* the token's first character is a word character
startsWithWordChar(tok) == tok \notin {" ", "(3/10)", "## "}

\* /\b(\d{1,3})%\s+remaining\b/i matches with its digits starting at token i
matchesAt(line, i) ==
  /\ IsPercent(line[i])
  /\ (i = 1 \/ ~endsWithWordChar(line[i - 1]))
  /\ \E j \in (i + 2)..Len(line) :
       /\ \A k \in (i + 1)..(j - 1) : line[k] = " "
       /\ toLowerCase(line[j]) = "remaining"
       /\ (j = Len(line) \/ ~startsWithWordChar(line[j + 1]))

\* line.match(...) without the g flag: <<>> for null, else the leftmost match
match(line) ==
  LET hits == {i \in 1..Len(line) : matchesAt(line, i)}
  IN IF hits = {} THEN <<>>
     ELSE <<line[CHOOSE i \in hits : \A j \in hits : i <= j]>>

min(a, b) == IF a <= b THEN a ELSE b

max(a, b) == IF a >= b THEN a ELSE b

\* mutant: the captured number is pushed as it is
pushedValueRaw(percent) == percent

\* Math.max(0, Math.min(100, percent))
pushedValue(percent) == max(0, min(100, percent))

RECURSIVE extractLoop(_)
extractLoop(lines) ==
  IF lines = <<>> THEN <<>>
  ELSE LET m == match(Head(lines))
       IN (IF m = <<>> THEN <<>> ELSE <<pushedValue(Number(m[1]))>>)
          \o extractLoop(Tail(lines))

\* section is <<>> (undefined) or <<the Section>>
extractRemainingPercents(section) ==
  IF section = <<>> THEN <<>> ELSE extractLoop(section[1].lines)

RECURSIVE sum(_)
sum(values) == IF values = <<>> THEN 0 ELSE Head(values) + sum(Tail(values))

\* <<>> for null, else <<the rounded mean>>
averageRemaining(section) ==
  LET points == extractRemainingPercents(section)
  IN IF Len(points) = 0 THEN <<>>
     ELSE <<round(sum(points), Len(points))>>

\* mutant: a provider without a Section gets no summary
buildProviderSummariesMatched(labels, sections) ==
  LET all == [i \in 1..Len(labels) |->
                [provider |-> labels[i],
                 section |-> getProviderSection(sections, labels[i]),
                 avgRemaining |-> averageRemaining(getProviderSection(sections, labels[i]))]]
  IN SelectSeq(all, LAMBDA e : e.section /= <<>>)

buildProviderSummaries(labels, sections) ==
  [i \in 1..Len(labels) |->
     LET section == getProviderSection(sections, labels[i])
     IN [provider |-> labels[i],
         section |-> section,
         avgRemaining |-> averageRemaining(section)]]

(***************************************************************************)
(* Providers and the outcomes of their query operations.                   *)
(***************************************************************************)
\* app/providers.ts: the registry of the React dashboard, in order
Registry == <<"Copilot", "Codex", "Gemini", "Amp", "Droid", "Kimi", "z.ai", "Antigravity">>

\* index.ts: the legacy dashboard queries Copilot and Codex
LegacyProviders == <<"Copilot", "Codex">>

ProviderLists ==
  {SubSeq(Registry, 1, n) : n \in 0..MaxProviders}

\* texts the providers report on success
OutputLive == << <<"Premium", " ", "80%", " ", "remaining">> >>

OutputWindows == << <<"5-hour window">>, <<>>, <<"60%", " ", "remaining">> >>

OutputSkipped == << <<"Quota", " ", "skipped">> >>

OutputDetailed ==
  << <<"Account">>, <<>>, <<"Premium", " ", "80%", " ", "remaining">>, <<"Chat">>,
     <<"Completions">>, <<>>, <<"Resets">>, <<"Period">> >>

SuccessOutput(label) ==
  CASE label = "Copilot" -> OutputDetailed
    [] label = "Codex" -> OutputWindows
    [] label = "Gemini" -> OutputSkipped
    [] OTHER -> OutputLive

\* message of a failure outcome { success: false, error }
TimeoutMessage == <<"timeout">>

\* the Error thrown by loadCodexTokens when no credentials exist
NoAuthMessage == <<"No OpenAI auth found">>

QueryResults(label) ==
  {[success |-> TRUE, output |-> SuccessOutput(label), error |-> <<>>],
   [success |-> FALSE, output |-> <<>>, error |-> TimeoutMessage]}

NoResult == [success |-> FALSE, output |-> <<>>, error |-> <<>>]

\* a promise returned by provider.query()
PendingQuery == [settled |-> "pending", result |-> NoResult, reason |-> <<>>]

Fulfilled(r) == [settled |-> "fulfilled", result |-> r, reason |-> <<>>]

Rejected(msg) == [settled |-> "rejected", result |-> NoResult, reason |-> msg]

\* a settled promise nobody reads any more: its fan-out has returned
Consumed == [settled |-> "consumed", result |-> NoResult, reason |-> <<>>]

\* queryCodexUsage awaits loadCodexTokens outside its try block, so its promise
\* can reject; the other providers catch inside their query functions
CanReject(label) == label = "Codex"

Settlements(label) ==
  {Fulfilled(r) : r \in QueryResults(label)}
  \cup (IF CanReject(label) THEN {Rejected(NoAuthMessage)} ELSE {})

(***************************************************************************)
(* app/query.ts: queryProviders, and the same code inside index.ts refresh *)
(***************************************************************************)
NULL == 0

\* `## ${label}\n${output}` and `## ${label}\nERROR: ${error}`
block(label, result) ==
  IF result.success
  THEN << <<"## ", label>> >> \o result.output
  ELSE << <<"## ", label>>, <<"ERROR:", " ">> \o result.error >>

\* mutant: counts the blocks instead of the failures
failureCountBlocks(results) == Len(results)

\* failures.length
failureCount(results) == Cardinality({i \in 1..Len(results) : ~results[i].success})

failedMessage(results) ==
  IF failureCount(results) = 0 THEN <<>>
  ELSE <<ToString(failureCount(results)), " provider(s) failed.">>

\* the try branch: every query fulfilled, results in provider order
mergeResults(labels, results, at) ==
  [lastUpdated |-> at,
   status |-> IF failureCount(results) = 0 THEN "ok" ELSE "error",
   content |-> joinBlocks([i \in 1..Len(labels) |-> block(labels[i], results[i])]),
   message |-> failedMessage(results)]

\* the catch branch of queryProviders
caughtSnapshot(msg) ==
  [lastUpdated |-> NULL, status |-> "error", content |-> EmptyString, message |-> msg]

\* the catch branch of the legacy refresh(): assigns status, content, message
legacyCaught(cur, msg) ==
  [cur EXCEPT !.status = "error", !.content = EmptyString, !.message = msg]

\* Promise.all over the query promises: pending | fulfilled | rejected
promiseAll(f) ==
  IF f.rejection /= <<>> THEN "rejected"
  ELSE IF \A i \in 1..Len(f.queries) : f.queries[i].settled = "fulfilled" THEN "fulfilled"
  ELSE "pending"

resultsOf(f) == [i \in 1..Len(f.queries) |-> f.queries[i].result]

queryProviders(labels, f, at) ==
  IF promiseAll(f) = "fulfilled"
  THEN mergeResults(labels, resultsOf(f), at)
  ELSE caughtSnapshot(f.rejection[1])

legacyOutcome(cur, labels, f, at) ==
  IF promiseAll(f) = "fulfilled"
  THEN mergeResults(labels, resultsOf(f), at)
  ELSE legacyCaught(cur, f.rejection[1])

(***************************************************************************)
(* The boxes of the legacy dashboard and applyResponsiveLayout (index.ts). *)
(* A dimension of a box is a number of cells, a percentage of the screen,  *)
(* or left to the library.                                                 *)
(***************************************************************************)
cells(n) == [unit |-> "cells", value |-> n]

percent(p) == [unit |-> "percent", value |-> p]

auto == [unit |-> "auto", value |-> 0]

\* blessed.box({ top, left, width, bottom: 1 }) of the three panels
constructed ==
  [mode |-> "dual",
   insights |-> [hidden |-> FALSE, top |-> cells(7), left |-> percent(70),
                 width |-> percent(30), height |-> auto],
   copilotPanel |-> [hidden |-> FALSE, top |-> cells(7), left |-> cells(0),
                     width |-> percent(50), height |-> auto],
   codexPanel |-> [hidden |-> FALSE, top |-> cells(7), left |-> percent(50),
                   width |-> percent(50), height |-> auto]]

\* mutant: a hidden box stays hidden
showKeeps(box) == box

show(box) == [box EXCEPT !.hidden = FALSE]

hide(box) == [box EXCEPT !.hidden = TRUE]

\* box.top = ...; box.left = ...; box.width = ...; box.height = ...
placed(box, top, left, width, height) ==
  [box EXCEPT !.top = top, !.left = left, !.width = width, !.height = height]

headerHeight == 3

metricsHeight == 4

footerHeight == 1

bodyTop == headerHeight + metricsHeight

bodyHeight(rows) == max(8, rows - bodyTop - footerHeight)

\* Math.max(30, Math.floor(cols * 0.3))
railWidth(cols) == max(30, (cols * 3) \div 10)

mainWidth(cols) == cols - railWidth(cols)

\* Math.max(10, Math.floor(bodyHeight * 0.45))
studioTopHeight(rows) == max(10, (bodyHeight(rows) * 45) \div 100)

\* mutant: the studio layout is chosen by the width alone
isStudioByWidth(cols, rows) == cols >= 155

isStudio(cols, rows) == cols >= 155 /\ rows >= 34

lineWeight(lines) == max(10, lines)

\* Math.max(8, Math.min(bodyHeight - 8, Math.round((top / total) * bodyHeight)))
stackTopHeight(rows, copilotLines, codexLines) ==
  LET lineWeightTop == lineWeight(copilotLines)
      totalWeight == lineWeightTop + lineWeight(codexLines)
  IN max(8, min(bodyHeight(rows) - 8, round(lineWeightTop * bodyHeight(rows), totalWeight)))

\* activePanel is the selection of the legacy dashboard: 0 copilot, 1 codex
applyResponsiveLayout(prev, cols, rows, copilotLines, codexLines, active) ==
  IF isStudio(cols, rows)
  THEN LET topHeight == studioTopHeight(rows)
       IN [mode |-> "studio",
           copilotPanel |-> show(placed(prev.copilotPanel, cells(bodyTop), cells(0),
                                        cells(mainWidth(cols)), cells(topHeight))),
           codexPanel |-> show(placed(prev.codexPanel, cells(bodyTop + topHeight), cells(0),
                                      cells(mainWidth(cols)),
                                      cells(bodyHeight(rows) - topHeight))),
           insights |-> placed(show(prev.insights), cells(bodyTop), cells(mainWidth(cols)),
                               cells(railWidth(cols)), cells(bodyHeight(rows)))]
  ELSE IF cols >= 120
  THEN LET leftWidth == cols \div 2
       IN [mode |-> "dual",
           copilotPanel |-> show(placed(prev.copilotPanel, cells(bodyTop), cells(0),
                                        cells(leftWidth), cells(bodyHeight(rows)))),
           codexPanel |-> show(placed(prev.codexPanel, cells(bodyTop), cells(leftWidth),
                                      cells(cols - leftWidth), cells(bodyHeight(rows)))),
           insights |-> hide(prev.insights)]
  ELSE IF cols < 98
  THEN [mode |-> "focus",
        copilotPanel |-> IF active = 0
                         THEN show(placed(prev.copilotPanel, cells(bodyTop), cells(0),
                                          percent(100), cells(bodyHeight(rows))))
                         ELSE hide(prev.copilotPanel),
        codexPanel |-> IF active = 0
                       THEN hide(prev.codexPanel)
                       ELSE show(placed(prev.codexPanel, cells(bodyTop), cells(0),
                                        percent(100), cells(bodyHeight(rows)))),
        insights |-> hide(prev.insights)]
  ELSE LET topHeight == stackTopHeight(rows, copilotLines, codexLines)
       IN [mode |-> "stack",
           copilotPanel |-> show(placed(prev.copilotPanel, cells(bodyTop), cells(0),
                                        percent(100), cells(topHeight))),
           codexPanel |-> show(placed(prev.codexPanel, cells(bodyTop + topHeight), cells(0),
                                      percent(100), cells(bodyHeight(rows) - topHeight))),
           insights |-> hide(prev.insights)]

(***************************************************************************)
(* The health history (App.tsx, index.ts repaint) and the repaint of the   *)
(* legacy dashboard.                                                       *)
(***************************************************************************)
\* `${state.status}|${state.lastUpdated?.getTime() ?? 0}|${score}`: the three
\* parts of the text; the empty text of the start is <<>>
historyKey(st, score) ==
  <<st.status, IF st.lastUpdated = NULL THEN 0 ELSE st.lastUpdated, score>>

\* the history of App.tsx holds 200 samples, that of index.ts 120
historyCapacity(kind) == IF kind = "react" THEN 200 ELSE 120

\* mutant: the newest sample is dropped when the history is full
pushedDropsNewest(history, score, capacity) ==
  IF Len(history) + 1 > capacity THEN history ELSE Append(history, score)

\* push(score), then shift() when the length exceeds the capacity
pushed(history, score, capacity) ==
  LET next == Append(history, score)
  IN IF Len(next) > capacity THEN Tail(next) ELSE next

\* healthScore(parseSections(state.content))
scoreOf(st) == healthScore(parseSections(st.content))

\* mutant: every paint appends a sample
historyAfterAlways(history, lastKey, st, score, capacity) ==
  pushed(history, score, capacity)

\* `if (key !== lastHistoryKey) push`: the history after a paint of st, whose
\* score is `score`
historyAfter(history, lastKey, st, score, capacity) ==
  IF historyKey(st, score) /= lastKey
  THEN pushed(history, score, capacity)
  ELSE history

RECURSIVE dropBlankTail(_)
\* the trailing blank lines, which trim() removes from the panel text
dropBlankTail(lines) ==
  IF lines /= <<>> /\ IsWhitespace(lines[Len(lines)])
  THEN dropBlankTail(SubSeq(lines, 1, Len(lines) - 1))
  ELSE lines

\* countLines(formatProviderPanel(name, accent, section)): title, rule, the
\* quota line when there is an average, an empty line, then one line per line
\* of the Section
panelLineCount(section) ==
  IF section = <<>> THEN 4
  ELSE LET headLines == IF averageRemaining(section) = <<>> THEN 3 ELSE 4
           kept == dropBlankTail(section[1].lines)
       IN IF kept = <<>> THEN headLines - 1 ELSE headLines + Len(kept)

\* the line counts repaint passes to applyResponsiveLayout
measured(st) ==
  LET sections == parseSections(st.content)
  IN <<panelLineCount(getProviderSection(sections, LegacyProviders[1])),
       panelLineCount(getProviderSection(sections, LegacyProviders[2]))>>

\* repaint() of the legacy dashboard for the state, active panel and screen
repaint(st, active, term) ==
  LET score == scoreOf(st)
      lines == measured(st)
  IN /\ healthHistory' = historyAfter(healthHistory, lastHistoryKey, st, score,
                                      historyCapacity("legacy"))
     /\ lastHistoryKey' = historyKey(st, score)
     /\ panelLines' = lines
     /\ layout' = applyResponsiveLayout(layout, term.width, term.height,
                                        lines[1], lines[2], active)

\* the history effect of App.tsx for the rendered state
historyEffect(st) ==
  LET score == scoreOf(st)
  IN /\ healthHistory' = historyAfter(healthHistory, lastHistoryKey, st, score,
                                      historyCapacity("react"))
     /\ lastHistoryKey' = historyKey(st, score)
     /\ UNCHANGED <<layout, panelLines>>

(***************************************************************************)
(* The refresh operation: useStatusData.ts refreshNow, index.ts refresh    *)
(***************************************************************************)
initialState ==
  [lastUpdated |-> NULL, status |-> "idle", content |-> EmptyString,
   message |-> <<"Press r to refresh.">>]

RECURSIVE joinLabels(_)
joinLabels(labels) ==
  IF labels = <<>> THEN <<>>
  ELSE IF Len(labels) = 1 THEN <<labels[1]>>
  ELSE <<labels[1], ", ">> \o joinLabels(Tail(labels))

queryingMessage(labels) == <<"Querying ">> \o joinLabels(labels) \o <<"...">>

\* mutant: the guard is missing
BusyNever == FALSE

\* `if (inflight) return;`
Busy == inflight

\* providers.map(async (provider) => ({ provider, result: await provider.query() }))
startFanout(labels) ==
  [pc |-> "awaiting",
   queries |-> [i \in 1..Len(labels) |-> PendingQuery],
   rejection |-> <<>>]

\* mutant: the loading state starts from an empty Snapshot
refreshNowClears ==
  IF Busy
  THEN /\ dropped' = TRUE
       /\ UNCHANGED <<impl, providers, state, inflight, fanouts>>
  ELSE /\ Len(fanouts) < MaxCycles
       /\ inflight' = TRUE
       /\ state' = [state EXCEPT !.status = "loading",
                                 !.content = EmptyString,
                                 !.message = queryingMessage(providers)]
       /\ fanouts' = Append(fanouts, startFanout(providers))
       /\ UNCHANGED <<impl, providers, dropped>>

\* refreshNow (React) and refresh (legacy) up to their await; `dropped` records
\* that a call took the early return while the current refresh was running
refreshNow ==
  IF Busy
  THEN /\ dropped' = TRUE
       /\ UNCHANGED <<impl, providers, state, inflight, fanouts>>
  ELSE /\ Len(fanouts) < MaxCycles
       /\ inflight' = TRUE
       /\ state' = [state EXCEPT !.status = "loading",
                                 !.message = queryingMessage(providers)]
       /\ fanouts' = Append(fanouts, startFanout(providers))
       /\ UNCHANGED <<impl, providers, dropped>>

\* refreshAndPaint of the legacy dashboard paints the state it finds before it
\* calls refresh; the React dashboard calls refreshNow alone
refreshPaint ==
  IF impl = "legacy"
  THEN repaint(state, selectedIndex, terminal)
  ELSE UNCHANGED paintVars

\* the initial refresh: the mount effects (React), `await refreshAndPaint()` (legacy)
Mount ==
  /\ stage = "off"
  /\ Len(fanouts) = 0
  /\ refreshNow
  /\ timer' = IF impl = "react" THEN 1 ELSE timer
  /\ IF impl = "react"
     THEN historyEffect(state)
     ELSE repaint(state, selectedIndex, terminal)
  /\ UNCHANGED <<pureVars, stillVars>>

\* setInterval callback; the legacy dashboard arms it after the first refresh
TimerTick ==
  /\ stage = "off"
  /\ timer = 1
  /\ refreshNow
  /\ refreshPaint
  /\ UNCHANGED timer
  /\ UNCHANGED <<pureVars, stillVars>>

\* the 'r' key
KeyRefresh ==
  /\ stage = "off"
  /\ Len(fanouts) >= 1
  /\ refreshNow
  /\ refreshPaint
  /\ UNCHANGED timer
  /\ UNCHANGED <<pureVars, stillVars>>

\* one provider.query() promise settles; Promise.all keeps the first rejection
settle(f, i, s) ==
  IF f.pc = "done" THEN [f EXCEPT !.queries[i] = Consumed]
  ELSE [f EXCEPT !.queries[i] = s,
                 !.rejection = IF s.settled = "rejected" /\ @ = <<>>
                               THEN <<s.reason>> ELSE @]

SettleQuery(c, i) ==
  /\ c \in 1..Len(fanouts)
  /\ i \in 1..Len(providers)
  /\ fanouts[c].queries[i].settled = "pending"
  /\ \E s \in Settlements(providers[i]) :
       fanouts' = [fanouts EXCEPT ![c] = settle(@, i, s)]
  /\ UNCHANGED <<impl, providers, state, inflight, dropped, timer>>
  /\ UNCHANGED <<pureVars, restVars>>

\* the fan-out has returned: its settled results are dropped, its pending
\* queries keep running
release(f) ==
  [pc |-> "done",
   queries |-> [i \in 1..Len(f.queries) |->
                  IF f.queries[i].settled = "pending" THEN PendingQuery ELSE Consumed],
   rejection |-> <<>>]

\* mutant: the flag is cleared on the success path only
flagKeptOnThrow(f) == promiseAll(f) = "rejected"

\* `inflight.current = false` after the await (React); `finally { inflight = false }`
flagAfterRefresh(f) == FALSE

\* `new Date()` at the completion of fan-out c: instants are abstracted to the
\* ordinal of the completing cycle, a later cycle completes at a later instant
now(c) == c

\* the continuation after `await Promise.all(...)`, to the end of refreshNow
\* (React) or refresh (legacy): the new Snapshot and the cleared flag
refreshReturns(c) ==
  /\ c \in 1..Len(fanouts)
  /\ fanouts[c].pc = "awaiting"
  /\ promiseAll(fanouts[c]) /= "pending"
  /\ state' = IF impl = "react"
              THEN queryProviders(providers, fanouts[c], now(c))
              ELSE legacyOutcome(state, providers, fanouts[c], now(c))
  /\ inflight' = flagAfterRefresh(fanouts[c])
  /\ fanouts' = [fanouts EXCEPT ![c] = release(@)]
  /\ dropped' = FALSE
  /\ timer' = IF impl = "legacy" /\ c = 1 THEN 1 ELSE timer
  /\ UNCHANGED <<impl, providers>>

\* the whole continuation: refreshAndPaint of the legacy dashboard repaints
\* with the Snapshot that refresh has just stored
FanoutReturn(c) ==
  /\ refreshReturns(c)
  /\ IF impl = "legacy"
     THEN repaint(state', selectedIndex, terminal)
     ELSE UNCHANGED paintVars
  /\ UNCHANGED <<pureVars, stillVars>>

(***************************************************************************)
(* The refresh interval: index.ts reads AGENT_STATUS_REFRESH_MS when the   *)
(* module is loaded.  The text of the variable is a sequence of tokens     *)
(* ("-", runs of digits, a letter); a JavaScript number is a record that   *)
(* says whether it is NaN and, if not, its value.                          *)
(***************************************************************************)
MaxEnvLen == 3

EnvAlphabet == {"-", "0", "6", "00", "x"}

\* the values of process.env.AGENT_STATUS_REFRESH_MS: unset, or a text
EnvValues ==
  {<<>>} \cup {<<text>> : text \in UNION {[1..n -> EnvAlphabet] : n \in 0..MaxEnvLen}}

NaN == [nan |-> TRUE, val |-> 0]

finite(v) == [nan |-> FALSE, val |-> v]

isDigits(tok) == tok \in {"0", "6", "00"}

digitsLen(tok) == IF tok = "00" THEN 2 ELSE 1

digitsVal(tok) == IF tok = "6" THEN 6 ELSE 0

pow10(n) == IF n = 2 THEN 100 ELSE 10

RECURSIVE decimal(_)
\* the value of a run of decimal digits
decimal(text) ==
  IF text = <<>> THEN 0
  ELSE LET last == text[Len(text)]
       IN decimal(SubSeq(text, 1, Len(text) - 1)) * pow10(digitsLen(last)) + digitsVal(last)

allDigits(text) == \A i \in 1..Len(text) : isDigits(text[i])

\* Number(text): the empty text is 0, an optional sign and digits are their
\* value, anything else is NaN
toNumber(text) ==
  IF text = <<>> THEN finite(0)
  ELSE IF allDigits(text) THEN finite(decimal(text))
  ELSE IF text[1] = "-" /\ Len(text) > 1 /\ allDigits(Tail(text))
       THEN finite(0 - decimal(Tail(text)))
  ELSE NaN

\* Math.max(a, b): NaN when an argument is NaN
MathMax(a, b) ==
  IF a.nan \/ b.nan THEN NaN
  ELSE IF a.val >= b.val THEN a ELSE b

\* process.env.AGENT_STATUS_REFRESH_MS ?? "60000"
envOrDefault(e) == IF e = <<>> THEN <<"6", "00", "00">> ELSE e[1]

\* Math.max(5000, Number(process.env.AGENT_STATUS_REFRESH_MS ?? "60000"))
refreshInterval(e) == MathMax(finite(5000), toNumber(envOrDefault(e)))

\* useTerminalDimensions(): the sizes the terminal takes
Terminals == {[width |-> 120, height |-> 17], [width |-> 70, height |-> 27]}

frame ==
  [state |-> state, selectedIndex |-> selectedIndex,
   detailOffset |-> detailOffset, terminal |-> terminal]

\* useState(0) for the selection and the offset, the first render, no exit yet
RestIdle ==
  /\ selectedIndex = 0
  /\ detailOffset = 0
  /\ shown = frame
  /\ depSelected = 0
  /\ depMaxOffset = 0
  /\ lastEvent = "none"
  /\ runStart = 0
  /\ runLen = 0
  /\ exitCode = <<>>

\* the variable is unset and the module has computed the interval
CfgIdle ==
  /\ env = <<>>
  /\ autoRefreshMs = <<refreshInterval(env)>>

\* the React dashboard after its first render and the history effect
PaintMounted ==
  /\ healthHistory = <<scoreOf(initialState)>>
  /\ lastHistoryKey = historyKey(initialState, scoreOf(initialState))
  /\ layout = constructed
  /\ panelLines = <<0, 0>>

\* nothing has been painted yet
PaintIdle ==
  /\ healthHistory = <<>>
  /\ lastHistoryKey = <<>>
  /\ layout = constructed
  /\ panelLines = <<0, 0>>

PureIdle ==
  /\ content = EmptyString
  /\ parsed = <<>>
  /\ health = 0
  /\ summaries = <<>>
  /\ stage = "off"

Init ==
  /\ impl \in {"react", "legacy"}
  /\ providers \in (IF impl = "react" THEN ProviderLists ELSE {LegacyProviders})
  /\ state = initialState
  /\ inflight = FALSE
  /\ fanouts = <<>>
  /\ dropped = FALSE
  /\ timer = 0
  /\ PureIdle
  /\ terminal = [width |-> 120, height |-> 17]
  /\ RestIdle
  /\ CfgIdle
  /\ PaintIdle

Next ==
  \/ Mount
  \/ TimerTick
  \/ KeyRefresh
  \/ \E c \in 1..MaxCycles : \E i \in 1..MaxProviders : SettleQuery(c, i)
  \/ \E c \in 1..MaxCycles : FanoutReturn(c)

Spec == Init /\ [][Next]_vars

\* every pending query settles (each provider enforces its own timeout), and
\* the continuation of a settled Promise.all is run by the event loop; the
\* repaint that ends the continuation is always possible, so the continuation
\* is enabled exactly when refreshReturns is, and every step that satisfies
\* refreshReturns is a FanoutReturn step
SpecLive ==
  /\ Spec
  /\ WF_vars(\E c \in 1..MaxCycles : \E i \in 1..MaxProviders : SettleQuery(c, i))
  /\ WF_dashVars(\E c \in 1..MaxCycles : refreshReturns(c))

(***************************************************************************)
(* The pure functions of app/status-model.ts applied to bounded inputs.    *)
(***************************************************************************)
LineAlphabet ==
  { <<>>,
    <<" ">>,
    <<"## ", "Codex">>,
    <<"## ", "Amp", " ">>,
    <<"ERROR:", " ", "timeout">>,
    <<"see", " ", "ERROR:">>,
    <<"Quota", " ", "skipped">>,
    <<"Quota", " ", "unavailable">> }

Contents == UNION {[1..n -> LineAlphabet] : n \in 1..MaxLines}

Statuses == {"ok", "warning", "error"}

linesOf(status) ==
  CASE status = "ok" -> << <<"Premium", " ", "80%", " ", "remaining">> >>
    [] status = "warning" -> << <<"Quota", " ", "skipped">> >>
    [] OTHER -> << <<"ERROR:", " ", "timeout">> >>

sectionOf(name, status) == [name |-> name, lines |-> linesOf(status), status |-> status]

SectionLists ==
  UNION {{[k \in 1..n |-> sectionOf(<<Registry[k]>>, f[k])] : f \in [1..n -> Statuses]}
           : n \in 0..MaxSections}

better(status) == IF status = "error" THEN "warning" ELSE "ok"

DashIdle ==
  /\ impl = "react"
  /\ providers = <<>>
  /\ state = initialState
  /\ inflight = FALSE
  /\ fanouts = <<>>
  /\ dropped = FALSE
  /\ timer = 0
  /\ terminal = [width |-> 120, height |-> 17]
  /\ RestIdle
  /\ CfgIdle
  /\ PaintIdle

InitPure ==
  /\ DashIdle
  /\ health = 0
  /\ summaries = <<>>
  /\ \/ stage = "input" /\ content \in Contents /\ parsed = <<>>
     \/ stage = "listed" /\ content = EmptyString /\ parsed \in SectionLists

ApplyParse ==
  /\ stage = "input"
  /\ parsed' = parseSections(content)
  /\ stage' = "parsed"
  /\ UNCHANGED <<content, health, summaries>>
  /\ UNCHANGED <<dashVars, restVars>>

ApplyScore ==
  /\ stage \in {"parsed", "listed"}
  /\ health' = healthScore(parsed)
  /\ stage' = "scored"
  /\ UNCHANGED <<content, parsed, summaries>>
  /\ UNCHANGED <<dashVars, restVars>>

\* one Section's status improves by one step, the others are held fixed
Improve(i) ==
  /\ stage \in {"scored", "improved"}
  /\ i \in 1..Len(parsed)
  /\ parsed[i].status /= "ok"
  /\ parsed' = [parsed EXCEPT ![i] = sectionOf(@.name, better(@.status))]
  /\ health' = healthScore(parsed')
  /\ stage' = "improved"
  /\ UNCHANGED <<content, summaries>>
  /\ UNCHANGED <<dashVars, restVars>>

NextPure ==
  \/ ApplyParse
  \/ ApplyScore
  \/ \E i \in 1..MaxSections : Improve(i)

SpecPure == InitPure /\ [][NextPure]_vars

(***************************************************************************)
(* buildProviderSummaries applied to bounded provider and Section lists.   *)
(***************************************************************************)
PercentLines ==
  { <<"Premium", " ", "80%", " ", "remaining">>,
    <<"60%", " ", "Remaining">>,
    <<"40%", " ", " ", "remaining", "(3/10)">>,
    <<"250%", " ", "remaining">>,
    <<"1234%", " ", "remaining">>,
    <<"x", "80%", " ", "remaining">>,
    <<"61%", "remaining">>,
    <<"80%", " ", "remaining", "s">>,
    <<"1%", " ", "remaining", " ", "80%", " ", "remaining">> }

PercentTexts == UNION {[1..n -> PercentLines] : n \in 0..MaxPercentLines}

\* a Section as parseSections leaves it
sectionWith(name, lines) == classify([name |-> name, lines |-> lines, status |-> "ok"])

SummaryPool ==
  { sectionWith(<<"Copilot">>, << <<"Premium", " ", "80%", " ", "remaining">> >>),
    sectionWith(<<"CODEX">>, << <<"60%", " ", "Remaining">> >>),
    sectionWith(<<"Codex">>, << <<"40%", " ", " ", "remaining", "(3/10)">> >>),
    sectionWith(<<"Codex", " ", "CLI">>, << <<"250%", " ", "remaining">> >>),
    sectionWith(<<"General">>, <<>>) }

SummarySectionLists == UNION {[1..n -> SummaryPool] : n \in 0..MaxSections}

InitSummary ==
  /\ impl = "react"
  /\ state = initialState
  /\ inflight = FALSE
  /\ fanouts = <<>>
  /\ dropped = FALSE
  /\ timer = 0
  /\ terminal = [width |-> 120, height |-> 17]
  /\ RestIdle
  /\ CfgIdle
  /\ PaintIdle
  /\ content = EmptyString
  /\ health = 0
  /\ summaries = <<>>
  /\ stage = "joining"
  /\ \/ providers \in ProviderLists /\ parsed \in SummarySectionLists
     \/ /\ providers = SubSeq(Registry, 1, 1)
        /\ parsed \in {<<sectionWith(<<Registry[1]>>, text)>> : text \in PercentTexts}

ApplySummaries ==
  /\ stage = "joining"
  /\ summaries' = buildProviderSummaries(providers, parsed)
  /\ stage' = "joined"
  /\ UNCHANGED <<content, parsed, health>>
  /\ UNCHANGED <<dashVars, restVars>>

NextSummary == ApplySummaries

SpecSummary == InitSummary /\ [][NextSummary]_vars

(***************************************************************************)
(* The dashboard view: ui/App.tsx and the selection of useStatusData.ts.   *)
(* A key handler runs on a rendered state whose effects have run; a Commit *)
(* is one render followed by the effects that render has scheduled.        *)
(***************************************************************************)
MaxPresses == 4

\* JavaScript %: the remainder takes the sign of the dividend
rem(a, b) == IF a >= 0 THEN a % b ELSE -((-a) % b)

\* mutant: the sum is not reduced modulo the number of providers
setSelectedIndexUnreduced(index) ==
  IF Len(providers) = 0 THEN 0
  ELSE rem(index, Len(providers)) + Len(providers)

\* the index setSelectedIndex stores
setSelectedIndex(index) ==
  IF Len(providers) = 0 THEN 0
  ELSE rem(rem(index, Len(providers)) + Len(providers), Len(providers))

\* mutant: the selection stays where it is
nextProviderStays == selectedIndex

nextProvider ==
  setSelectedIndex(rem(selectedIndex + 1, max(1, Len(providers))))

prevProvider ==
  setSelectedIndex(rem(selectedIndex - 1 + max(1, Len(providers)),
                       max(1, Len(providers))))

clamp(value, lo, hi) == min(hi, max(lo, value))

\* (summaries[selectedIndex] ?? summaries[0])?.provider ?? providers[0], <<>> for
\* undefined; summaries[i].provider is providers[i]
selectedProvider(sel) ==
  IF sel + 1 \in 1..Len(providers) THEN <<providers[sel + 1]>>
  ELSE IF Len(providers) > 0 THEN <<providers[1]>> ELSE <<>>

selectedSection(st, sel) ==
  LET provider == selectedProvider(sel)
  IN IF provider = <<>> THEN <<>>
     ELSE getProviderSection(parseSections(st.content), provider[1])

detailLines(st, sel) ==
  LET section == selectedSection(st, sel)
  IN IF section = <<>> THEN <<>> ELSE section[1].lines

compact(term) == term.width < 112

tiny(term) == term.width < 78

micro(term) == term.width < 58

\* ProviderList: showStatus, showBar, showScore
showStatus(term) == ~tiny(term)

\* mutant: the usage bar follows the status column
showBarWide(term) == ~tiny(term)

showBar(term) == ~tiny(term) \/ term.width >= 66

showScore(term) == ~tiny(term)

detailHeight(term) ==
  max(5, term.height - (IF compact(term) THEN (IF tiny(term) THEN 19 ELSE 22) ELSE 12))

maxOffsetOf(st, sel, term) == max(0, Len(detailLines(st, sel)) - detailHeight(term))

\* maxOffset of the current render
maxOffset == maxOffsetOf(state, selectedIndex, terminal)

\* the screen shows the current state and no effect is pending
Idle ==
  /\ shown = frame
  /\ depSelected = selectedIndex
  /\ depMaxOffset = maxOffset

\* the effects of App.tsx on the offset, in their order: reset when the
\* selection has changed, clamp when maxOffset has changed
offsetAfterEffects(offset) ==
  LET reset == IF depSelected /= selectedIndex THEN 0 ELSE offset
  IN IF depMaxOffset /= maxOffset THEN clamp(reset, 0, maxOffset) ELSE reset

\* one render of App and the effects that follow it
Commit ==
  /\ impl = "react"
  /\ ~Idle
  /\ shown' = frame
  /\ selectedIndex' = IF depSelected /= selectedIndex /\ selectedIndex >= Len(providers)
                      THEN setSelectedIndex(0) ELSE selectedIndex
  /\ detailOffset' = offsetAfterEffects(detailOffset)
  /\ depSelected' = selectedIndex
  /\ depMaxOffset' = maxOffset
  /\ historyEffect(state)
  /\ UNCHANGED <<terminal, dashVars, pureVars, obsVars, exitCode, cfgVars>>

\* left key
KeyLeft ==
  /\ impl = "react"
  /\ Idle
  /\ selectedIndex' = prevProvider
  /\ UNCHANGED <<detailOffset, terminal, shown, depSelected, depMaxOffset>>
  /\ UNCHANGED <<dashVars, pureVars, exitCode, cfgVars, paintVars>>

\* right key
KeyRight ==
  /\ impl = "react"
  /\ Idle
  /\ selectedIndex' = nextProvider
  /\ UNCHANGED <<detailOffset, terminal, shown, depSelected, depMaxOffset>>
  /\ UNCHANGED <<dashVars, pureVars, exitCode, cfgVars, paintVars>>

\* mutant: the upper limit is not applied
scrolledAny(delta) == max(0, detailOffset + delta)

\* setDetailOffset((current) => clamp(current + delta, 0, maxOffset))
scrolled(delta) == clamp(detailOffset + delta, 0, maxOffset)

\* mutant: half the visible height, without the minimum of three lines
pageStepHalf == detailHeight(terminal) \div 2

\* Math.max(3, Math.floor(detailHeight / 2))
pageStep == max(3, detailHeight(terminal) \div 2)

Scroll(delta) ==
  /\ impl = "react"
  /\ Idle
  /\ detailOffset' = scrolled(delta)
  /\ UNCHANGED <<selectedIndex, terminal, shown, depSelected, depMaxOffset>>
  /\ UNCHANGED <<dashVars, pureVars, exitCode, cfgVars, paintVars>>

KeyUp == Scroll(-1)

KeyDown == Scroll(1)

KeyPageUp == Scroll(-pageStep)

KeyPageDown == Scroll(pageStep)

\* mutant: a resize also calls refreshNow
ResizeRefreshes ==
  /\ impl = "react" => Idle
  /\ terminal' \in Terminals \ {terminal}
  /\ refreshNow
  /\ IF impl = "legacy"
     THEN repaint(state, selectedIndex, terminal')
     ELSE UNCHANGED paintVars
  /\ UNCHANGED <<selectedIndex, detailOffset, shown, depSelected, depMaxOffset>>
  /\ UNCHANGED <<timer, pureVars, exitCode, cfgVars>>

\* the terminal takes another size, one of `sizes`; the legacy dashboard
\* repaints in its resize handler, the React dashboard renders anew
ResizeWithin(sizes) ==
  /\ impl = "react" => Idle
  /\ terminal' \in sizes \ {terminal}
  /\ IF impl = "legacy"
     THEN repaint(state, selectedIndex, terminal')
     ELSE UNCHANGED paintVars
  /\ UNCHANGED <<selectedIndex, detailOffset, shown, depSelected, depMaxOffset>>
  /\ UNCHANGED <<dashVars, pureVars, exitCode, cfgVars>>

Resize == ResizeWithin(Terminals)

\* what the last input was, and how many 'right' presses in a row from where
Observe(event) ==
  /\ lastEvent' = event
  /\ IF event = "right"
     THEN IF lastEvent = "right" /\ runLen < MaxPresses
          THEN runStart' = runStart /\ runLen' = runLen + 1
          ELSE runStart' = selectedIndex /\ runLen' = 1
     ELSE runStart' = 0 /\ runLen' = 0

\* refreshes are taken while the history is shorter than this
MaxViewSamples == 2

\* the outcomes of a query as the view sees them: the first provider's report
\* is short when the account has a single quota
ViewResults(label) ==
  QueryResults(label) \cup
    (IF label = Registry[1]
     THEN {[success |-> TRUE, output |-> OutputLive, error |-> <<>>]}
     ELSE {})

\* setState(snapshot) of a refresh whose queries have all been fulfilled
RefreshCompletes ==
  /\ impl = "react"
  /\ Idle
  /\ Len(healthHistory) < MaxViewSamples
  /\ \E rs \in [1..Len(providers) -> UNION {ViewResults(l) : l \in Range(providers)}] :
       /\ \A i \in 1..Len(providers) : rs[i] \in ViewResults(providers[i])
       /\ state' = queryProviders(providers,
                                  [pc |-> "awaiting",
                                   queries |-> [i \in 1..Len(providers) |-> Fulfilled(rs[i])],
                                   rejection |-> <<>>],
                                  now(1))
  /\ UNCHANGED <<impl, providers, inflight, fanouts, dropped, timer>>
  /\ UNCHANGED <<viewVars, pureVars, exitCode, cfgVars, paintVars>>

InitView ==
  /\ impl = "react"
  /\ providers \in ProviderLists
  /\ state = initialState
  /\ inflight = FALSE
  /\ fanouts = <<>>
  /\ dropped = FALSE
  /\ timer = 0
  /\ PureIdle
  /\ terminal \in Terminals
  /\ RestIdle
  /\ CfgIdle
  /\ PaintMounted

NextView ==
  \/ RefreshCompletes /\ Observe("refresh")
  \/ KeyLeft /\ Observe("left")
  \/ KeyRight /\ Observe("right")
  \/ KeyUp /\ Observe("up")
  \/ KeyDown /\ Observe("down")
  \/ KeyPageUp /\ Observe("pageup")
  \/ KeyPageDown /\ Observe("pagedown")
  \/ Resize /\ Observe("resize")
  \/ Commit

SpecView == InitView /\ [][NextView]_vars

(***************************************************************************)
(* The dashboards with their refresh operation and their input events.     *)
(***************************************************************************)
\* tab key of the legacy dashboard: activePanel, as an index of its providers
LegacyTab ==
  /\ impl = "legacy"
  /\ selectedIndex' = 1 - selectedIndex
  /\ repaint(state, selectedIndex', terminal)
  /\ UNCHANGED <<detailOffset, terminal, shown, depSelected, depMaxOffset>>
  /\ UNCHANGED <<dashVars, pureVars, exitCode, cfgVars>>

\* up, down, pageup and pagedown of the legacy dashboard: focusedBox().scroll(delta),
\* the box keeps its position within its content
LegacyScroll(delta) ==
  /\ impl = "legacy"
  /\ detailOffset' = clamp(detailOffset + delta, 0, Len(detailLines(state, selectedIndex)))
  /\ UNCHANGED <<selectedIndex, terminal, shown, depSelected, depMaxOffset>>
  /\ UNCHANGED <<dashVars, pureVars, exitCode, cfgVars, paintVars>>

MaxNavProviders == 2

MaxNavCycles == 1

\* a refresh that would start a fan-out beyond the bound is not taken
NavBudget == Busy \/ Len(fanouts) < MaxNavCycles

InitNav ==
  /\ impl \in {"react", "legacy"}
  /\ providers \in (IF impl = "react"
                    THEN {SubSeq(Registry, 1, n) : n \in 0..MaxNavProviders}
                    ELSE {LegacyProviders})
  /\ state = initialState
  /\ inflight = FALSE
  /\ fanouts = <<>>
  /\ dropped = FALSE
  /\ timer = 0
  /\ PureIdle
  /\ terminal \in Terminals
  /\ RestIdle
  /\ CfgIdle
  /\ PaintIdle

NextNav ==
  \/ Mount
  \/ NavBudget /\ TimerTick
  \/ NavBudget /\ KeyRefresh
  \/ \E c \in 1..MaxCycles : \E i \in 1..MaxProviders : SettleQuery(c, i)
  \/ \E c \in 1..MaxCycles : FanoutReturn(c)
  \/ Commit
  \/ KeyLeft /\ UNCHANGED obsVars
  \/ KeyRight /\ UNCHANGED obsVars
  \/ KeyUp /\ UNCHANGED obsVars
  \/ KeyDown /\ UNCHANGED obsVars
  \/ KeyPageUp /\ UNCHANGED obsVars
  \/ KeyPageDown /\ UNCHANGED obsVars
  \/ Resize /\ UNCHANGED obsVars
  \/ LegacyTab /\ UNCHANGED obsVars
  \/ \E delta \in {-10, -1, 1, 10} : LegacyScroll(delta) /\ UNCHANGED obsVars

SpecNav == InitNav /\ [][NextNav]_vars

(***************************************************************************)
(* The 'run once' mode: index.ts of the React dashboard, runOnce of the    *)
(* legacy dashboard.                                                       *)
(***************************************************************************)
\* mutant: the process always reports success
exitStatusZero(snapshot) == 0

\* snapshot.status === "error" ? 1 : 0
exitStatus(snapshot) == IF snapshot.status = "error" THEN 1 ELSE 0

\* `queryProviders(providers)` up to its await; the legacy runOnce calls refresh()
RunOnce ==
  /\ exitCode = <<>>
  /\ Len(fanouts) = 0
  /\ IF impl = "react"
     THEN /\ fanouts' = Append(fanouts, startFanout(providers))
          /\ UNCHANGED <<impl, providers, state, inflight, dropped>>
     ELSE refreshNow
  /\ UNCHANGED timer
  /\ UNCHANGED <<pureVars, viewVars, obsVars, exitCode, cfgVars, paintVars>>

\* the continuation after the await: the Snapshot, then the exit code
RunOnceExit ==
  /\ exitCode = <<>>
  /\ Len(fanouts) = 1
  /\ fanouts[1].pc = "awaiting"
  /\ promiseAll(fanouts[1]) /= "pending"
  /\ state' = IF impl = "react"
              THEN queryProviders(providers, fanouts[1], now(1))
              ELSE legacyOutcome(state, providers, fanouts[1], now(1))
  /\ inflight' = flagAfterRefresh(fanouts[1])
  /\ fanouts' = [fanouts EXCEPT ![1] = release(@)]
  /\ exitCode' = <<exitStatus(state')>>
  /\ UNCHANGED <<impl, providers, dropped, timer>>
  /\ UNCHANGED <<pureVars, viewVars, obsVars, cfgVars, paintVars>>

MaxOnceProviders == 4

InitOnce ==
  /\ impl \in {"react", "legacy"}
  /\ providers \in (IF impl = "react"
                    THEN {SubSeq(Registry, 1, n) : n \in 0..MaxOnceProviders}
                    ELSE {LegacyProviders})
  /\ state = initialState
  /\ inflight = FALSE
  /\ fanouts = <<>>
  /\ dropped = FALSE
  /\ timer = 0
  /\ PureIdle
  /\ terminal = [width |-> 120, height |-> 17]
  /\ RestIdle
  /\ CfgIdle
  /\ PaintIdle

\* process.exit ends the legacy process; the React build only sets
\* process.exitCode, and queries still pending settle afterwards
NextOnce ==
  \/ RunOnce
  \/ /\ impl = "legacy" => exitCode = <<>>
     /\ \E i \in 1..MaxOnceProviders : SettleQuery(1, i)
  \/ RunOnceExit

SpecOnce == InitOnce /\ [][NextOnce]_vars

(***************************************************************************)
(* Start of the dashboard: the module computes the interval, then the      *)
(* dashboard starts and hands it to setInterval.                           *)
(***************************************************************************)
\* const autoRefreshMs = Math.max(5000, Number(... ?? "60000"))
LoadModule ==
  /\ autoRefreshMs = <<>>
  /\ autoRefreshMs' = <<refreshInterval(env)>>
  /\ UNCHANGED <<env, dashVars, pureVars, viewVars, obsVars, exitCode, paintVars>>

InitConfig ==
  /\ impl \in {"react", "legacy"}
  /\ providers = (IF impl = "react" THEN SubSeq(Registry, 1, 1) ELSE LegacyProviders)
  /\ state = initialState
  /\ inflight = FALSE
  /\ fanouts = <<>>
  /\ dropped = FALSE
  /\ timer = 0
  /\ PureIdle
  /\ terminal = [width |-> 120, height |-> 17]
  /\ RestIdle
  /\ env \in EnvValues
  /\ autoRefreshMs = <<>>
  /\ PaintIdle

\* runApp(autoRefreshMs) and runBlessed() come after the computation
NextConfig ==
  \/ LoadModule
  \/ autoRefreshMs /= <<>> /\ Mount
  \/ \E i \in 1..MaxProviders : SettleQuery(1, i)
  \/ FanoutReturn(1)

SpecConfig == InitConfig /\ [][NextConfig]_vars

(***************************************************************************)
(* applyResponsiveLayout applied to bounded inputs: terminal sizes around  *)
(* the breakpoints, line counts of the two panels, the active panel.       *)
(***************************************************************************)
MaxPanelLines == 40

LayoutColumns == {97, 98, 119, 120, 154, 155}

LayoutRows == {16, 23, 24, 33, 34}

LayoutSizes == {[width |-> c, height |-> r] : c \in LayoutColumns, r \in LayoutRows}

LineCounts == {0, 11, MaxPanelLines}

\* one call of applyResponsiveLayout, on a screen of any size
ApplyLayout ==
  \E size \in LayoutSizes, lines \in LineCounts \X LineCounts, active \in {0, 1} :
    /\ terminal' = size
    /\ panelLines' = lines
    /\ selectedIndex' = active
    /\ layout' = applyResponsiveLayout(layout, size.width, size.height,
                                       lines[1], lines[2], active)
    /\ UNCHANGED <<detailOffset, shown, depSelected, depMaxOffset>>
    /\ UNCHANGED <<healthHistory, lastHistoryKey>>
    /\ UNCHANGED <<dashVars, pureVars, obsVars, exitCode, cfgVars>>

InitLayout ==
  /\ impl = "legacy"
  /\ providers = LegacyProviders
  /\ state = initialState
  /\ inflight = FALSE
  /\ fanouts = <<>>
  /\ dropped = FALSE
  /\ timer = 0
  /\ PureIdle
  /\ terminal = [width |-> 120, height |-> 17]
  /\ RestIdle
  /\ CfgIdle
  /\ PaintIdle

NextLayout == ApplyLayout

SpecLayout == InitLayout /\ [][NextLayout]_vars

(***************************************************************************)
(* The health history of a dashboard that has been running for a while:    *)
(* the history is nearly full, the last refresh has completed, and of the  *)
(* earlier fan-outs only the last is kept.                                  *)
(***************************************************************************)
MaxHistoryCycles == 1

\* the samples of a long run, the last one being the score on screen
pastHistory(n, last) == [i \in 1..n |-> IF i = n THEN last ELSE 50 * (i % 3)]

HistoryLengths(kind) ==
  {historyCapacity(kind) - 2, historyCapacity(kind) - 1, historyCapacity(kind)}

\* the fan-out of the last refresh: every query was fulfilled with a report
pastFanout(labels) ==
  [pc |-> "awaiting",
   queries |-> [i \in 1..Len(labels) |->
                  Fulfilled([success |-> TRUE, output |-> SuccessOutput(labels[i]),
                             error |-> <<>>])],
   rejection |-> <<>>]

HistoryBudget == Busy \/ Len(fanouts) < 1 + MaxHistoryCycles

InitHistory ==
  /\ impl \in {"react", "legacy"}
  /\ providers = LegacyProviders
  /\ state = (IF impl = "react"
              THEN queryProviders(providers, pastFanout(providers), now(1))
              ELSE legacyOutcome(initialState, providers, pastFanout(providers), now(1)))
  /\ inflight = FALSE
  /\ fanouts = <<release(pastFanout(providers))>>
  /\ dropped = FALSE
  /\ timer = 1
  /\ PureIdle
  /\ terminal \in Terminals
  /\ selectedIndex = 0
  /\ detailOffset = 0
  /\ shown = frame
  /\ depSelected = 0
  /\ depMaxOffset = maxOffset
  /\ lastEvent = "none"
  /\ runStart = 0
  /\ runLen = 0
  /\ exitCode = <<>>
  /\ CfgIdle
  /\ healthHistory \in {pastHistory(n, scoreOf(state)) : n \in HistoryLengths(impl)}
  /\ lastHistoryKey = historyKey(state, scoreOf(state))
  /\ panelLines = (IF impl = "legacy" THEN measured(state) ELSE <<0, 0>>)
  /\ layout = (IF impl = "legacy"
               THEN applyResponsiveLayout(constructed, terminal.width, terminal.height,
                                          measured(state)[1], measured(state)[2], 0)
               ELSE constructed)

NextHistory ==
  \/ HistoryBudget /\ TimerTick
  \/ HistoryBudget /\ KeyRefresh
  \/ \E c \in 1..MaxCycles : \E i \in 1..MaxProviders : SettleQuery(c, i)
  \/ \E c \in 1..MaxCycles : FanoutReturn(c)
  \/ Commit
  \/ KeyRight /\ UNCHANGED obsVars
  \/ KeyDown /\ UNCHANGED obsVars
  \/ Resize /\ UNCHANGED obsVars
  \/ LegacyTab /\ UNCHANGED obsVars

SpecHistory == InitHistory /\ [][NextHistory]_vars

(***************************************************************************)
(* The React dashboard on terminals of many sizes: the widths on both      *)
(* sides of the density thresholds.                                        *)
(***************************************************************************)
DensityWidths == {57, 58, 65, 66, 77, 78, 111, 112}

DensityHeights == {10, 17, 24, 27, 40}

DensitySizes == {[width |-> w, height |-> h] : w \in DensityWidths, h \in DensityHeights}

InitDensity ==
  /\ impl = "react"
  /\ providers = SubSeq(Registry, 1, 1)
  /\ state = initialState
  /\ inflight = FALSE
  /\ fanouts = <<>>
  /\ dropped = FALSE
  /\ timer = 0
  /\ PureIdle
  /\ terminal = [width |-> 120, height |-> 17]
  /\ RestIdle
  /\ CfgIdle
  /\ PaintMounted

NextDensity ==
  \/ ResizeWithin(DensitySizes) /\ UNCHANGED obsVars
  \/ Commit

SpecDensity == InitDensity /\ [][NextDensity]_vars

(***************************************************************************)
(* The legacy dashboard on terminals of all four layouts, with its tab     *)
(* key, its resize handler and its refresh.                                *)
(***************************************************************************)
MaxPaneCycles == 1

\* one terminal for each of studio, dual, stack and focus
PaneTerminals ==
  {[width |-> 160, height |-> 40], [width |-> 120, height |-> 30],
   [width |-> 119, height |-> 30], [width |-> 97, height |-> 30]}

PaneBudget == Busy \/ Len(fanouts) < MaxPaneCycles

InitPanes ==
  /\ impl = "legacy"
  /\ providers = LegacyProviders
  /\ state = initialState
  /\ inflight = FALSE
  /\ fanouts = <<>>
  /\ dropped = FALSE
  /\ timer = 0
  /\ PureIdle
  /\ terminal \in PaneTerminals
  /\ RestIdle
  /\ CfgIdle
  /\ PaintIdle

NextPanes ==
  \/ Mount
  \/ PaneBudget /\ KeyRefresh
  \/ \E c \in 1..MaxCycles : \E i \in 1..MaxProviders : SettleQuery(c, i)
  \/ \E c \in 1..MaxCycles : FanoutReturn(c)
  \/ ResizeWithin(PaneTerminals) /\ UNCHANGED obsVars
  \/ LegacyTab /\ UNCHANGED obsVars

SpecPanes == InitPanes /\ [][NextPanes]_vars

(***************************************************************************)
(* Properties of the fan-out and of the refresh operation.                 *)
(***************************************************************************)
\* the refresh of fan-out c finishes in this step
Returns(c) ==
  /\ c \in 1..Len(fanouts)
  /\ fanouts[c].pc = "awaiting"
  /\ fanouts'[c].pc = "done"

PendingIn(f) == {i \in 1..Len(f.queries) : f.queries[i].settled = "pending"}

Awaiting == {c \in 1..Len(fanouts) : fanouts[c].pc = "awaiting"}

\* C1: queryProviders returns its Snapshot only after every provider query of
\* the cycle has settled, whatever the outcomes (success, failure, rejection):
\* no refresh finishes while a query of its cycle is still pending.
C1_BarrierWaitsForAll ==
  [][\A c \in 1..MaxCycles : Returns(c) => PendingIn(fanouts[c]) = {}]_vars

\* C2: at most one fan-out cycle is in progress; a refresh request that finds
\* the in-flight flag set starts no provider query and changes neither the
\* Snapshot nor the flag, and while the flag is set no new fan-out starts.
C2_SingleFanout ==
  /\ [](Cardinality(Awaiting) <= 1 /\ (Awaiting /= {} => inflight))
  /\ [][(~dropped /\ dropped') => UNCHANGED <<state, inflight, fanouts>>]_vars
  /\ [][inflight => Len(fanouts') = Len(fanouts)]_vars

\* a refresh request was dropped while the queries of the running cycle were
\* partly settled
C2_Witness ==
  /\ dropped
  /\ inflight
  /\ \E c \in Awaiting :
       /\ PendingIn(fanouts[c]) /= {}
       /\ \E i \in 1..Len(providers) : fanouts[c].queries[i].settled = "fulfilled"

\* C3: the flag is set while a refresh is running and stays set as long as any
\* provider query started by a cycle is pending: whenever the flag is clear,
\* no refresh is running and no provider query of an earlier cycle is pending.
C3_FlagCoversQueries ==
  /\ inflight <=> Awaiting /= {}
  /\ ~inflight => \A c \in 1..Len(fanouts) : PendingIn(fanouts[c]) = {}

\* the text a fulfilled query contributes under its header line
bodyOf(result) ==
  IF result.success THEN result.output
  ELSE << <<"ERROR:", " ">> \o result.error >>

RECURSIVE expectedContent(_, _, _)
expectedContent(labels, results, i) ==
  IF i > Len(labels) THEN <<>>
  ELSE << <<"## ", labels[i]>> >> \o bodyOf(results[i])
       \o (IF i < Len(labels) THEN <<EmptyLine>> ELSE <<>>)
       \o expectedContent(labels, results, i + 1)

headerLines(text) == SelectSeq(text, LAMBDA line : startsWith(line, "## "))

\* C4: whenever a refresh finishes, the content holds exactly one block per
\* provider, in provider-list order: the header '## ' + label, followed by the
\* success text or by 'ERROR: ' + message; no provider's failure removes or
\* reorders another provider's block.
C4_OneBlockPerProvider ==
  [][\A c \in 1..MaxCycles : Returns(c) =>
       /\ headerLines(state'.content) = [i \in 1..Len(providers) |-> <<"## ", providers[i]>>]
       /\ \A i \in 1..Len(providers) :
            fanouts[c].queries[i].settled = "fulfilled" =>
              \E k \in 1..Len(state'.content) :
                /\ state'.content[k] = <<"## ", providers[i]>>
                /\ LET body == bodyOf(fanouts[c].queries[i].result)
                   IN /\ k + Len(body) <= Len(state'.content)
                      /\ SubSeq(state'.content, k + 1, k + Len(body)) = body]_vars

failedIn(f) ==
  {i \in 1..Len(f.queries) :
     f.queries[i].settled = "fulfilled" /\ ~f.queries[i].result.success}

\* C5: after a fan-out that completes (every query fulfilled), the status is
\* 'ok' iff no provider returned a failure outcome, else 'error'; the message
\* is empty on full success, else '<n> provider(s) failed.'; the content is the
\* ordered blocks (empty for zero providers); every failed provider's parsed
\* Section has status 'error'.
C5_StatusCountsFailures ==
  [][\A c \in 1..MaxCycles :
       (Returns(c) /\ promiseAll(fanouts[c]) = "fulfilled") =>
         LET n == Cardinality(failedIn(fanouts[c]))
             secs == parseSections(state'.content)
         IN /\ state'.status = (IF n = 0 THEN "ok" ELSE "error")
            /\ state'.message =
                 (IF n = 0 THEN <<>> ELSE <<ToString(n), " provider(s) failed.">>)
            /\ state'.content =
                 (IF providers = <<>> THEN EmptyString
                  ELSE expectedContent(providers, resultsOf(fanouts[c]), 1))
            /\ providers = <<>> => state'.status = "ok" /\ secs = <<>>
            /\ \A i \in failedIn(fanouts[c]) :
                 LET sec == getProviderSection(secs, providers[i])
                 IN sec /= <<>> /\ sec[1].status = "error"
                    /\ <<"ERROR:", " ", "timeout">> \in Range(sec[1].lines)]_vars

\* three providers, exactly one of them returned the failure "timeout"
C5_Witness ==
  /\ Len(providers) = 3
  /\ ~inflight
  /\ state.status = "error"
  /\ state.message = <<"1", " provider(s) failed.">>
  /\ Len(parseSections(state.content)) = 3

\* C6: when the fan-out throws before completion, the resulting Snapshot has
\* status 'error', empty content, the exception text as message and a null
\* timestamp, in the React and in the legacy implementation, whatever the
\* previous Snapshot held.
C6_ThrowSnapshot ==
  [][\A c \in 1..MaxCycles :
       (Returns(c) /\ promiseAll(fanouts[c]) = "rejected") =>
         state' = [lastUpdated |-> NULL, status |-> "error",
                   content |-> EmptyString, message |-> fanouts[c].rejection[1]]]_vars

\* a refresh request at this point starts a new fan-out: the guard of the
\* 'r' key and its call of refreshNow; the repaint around it never blocks
CanStartFanout ==
  ENABLED (/\ stage = "off"
           /\ Len(fanouts) >= 1
           /\ refreshNow
           /\ Len(fanouts') = Len(fanouts) + 1)

\* C7: failures never halt the refresh loop: when every provider query
\* settles, the status leaves 'loading' for 'ok' or 'error', the in-flight flag
\* is cleared, and the next timer tick or 'r' key starts a new fan-out.
C7_RefreshLoopContinues ==
  /\ inflight ~> ~inflight
  /\ (state.status = "loading") ~> (state.status \in {"ok", "error"})
  /\ []((~inflight /\ Len(fanouts) \in 1..(MaxCycles - 1)) => CanStartFanout)

\* a cycle ended with a rejected query and the next refresh started a new one
C7_Witness ==
  /\ Len(fanouts) = 2
  /\ fanouts[2].pc = "awaiting"
  /\ state.status = "loading"
  /\ state.content = EmptyString
  /\ state.message = queryingMessage(providers)

(***************************************************************************)
(* Properties of parseSections and healthScore.                            *)
(***************************************************************************)
IsOpener(line) == startsWith(line, "## ")

\* where the Sections of a text start: the opener lines, and 0 for the implicit
\* 'General' Section of a text whose first line is no opener
Starts(text) ==
  {k \in 1..Len(text) : IsOpener(text[k])}
  \cup (IF IsOpener(text[1]) THEN {} ELSE {0})

nextStart(text, s) ==
  LET later == {t \in Starts(text) : t > s} \cup {Len(text) + 1}
  IN CHOOSE t \in later : \A u \in later : t <= u

ordinal(text, s) == Cardinality({t \in Starts(text) : t <= s})

\* every Section holds exactly the lines between its opener and the next one
LinesPreserved(text, secs) ==
  /\ Len(secs) = Cardinality(Starts(text))
  /\ \A s \in Starts(text) :
       secs[ordinal(text, s)].lines = SubSeq(text, s + 1, nextStart(text, s) - 1)

onlyWhitespace(text) ==
  \A k \in 1..Len(text) : \A j \in 1..Len(text[k]) : text[k][j] = " "

\* C8 as stated: every line is preserved, a Section is named by the rest of
\* its opener line, a leading line without opener starts 'General', and only
\* the empty content string yields an empty Section list.
C8_EveryLinePreserved ==
  stage = "parsed" =>
    IF content = EmptyString THEN parsed = <<>>
    ELSE /\ LinesPreserved(content, parsed)
         /\ \A s \in Starts(content) :
              parsed[ordinal(content, s)].name =
                (IF s = 0 THEN <<"General">> ELSE Tail(content[s]))

\* C8 amended: content that is empty or holds nothing but whitespace yields an
\* empty Section list; for every other content every line, blank lines
\* included, is kept verbatim in exactly one Section in its original order, a
\* Section is named by the rest of its opener line with the surrounding
\* whitespace trimmed, and a leading line without opener starts 'General'.
C8_LinesPreservedUnlessBlank ==
  stage = "parsed" =>
    IF onlyWhitespace(content) THEN parsed = <<>>
    ELSE /\ LinesPreserved(content, parsed)
         /\ parsed /= <<>>
         /\ \A s \in Starts(content) :
              parsed[ordinal(content, s)].name =
                (IF s = 0 THEN <<"General">> ELSE trim(Tail(content[s])))

\* an implicit 'General' Section followed by a Section that keeps its blank lines
C8_Witness ==
  /\ stage = "parsed"
  /\ Len(parsed) = 2
  /\ parsed[1].name = <<"General">>
  /\ parsed[2].name = <<"Amp">>
  /\ parsed[2].lines = << <<>>, <<" ">> >>

statusOfLines(lineSet) ==
  IF \E l \in lineSet : startsWith(l, "ERROR:") \/ includes(l, "unavailable") THEN "error"
  ELSE IF \E l \in lineSet : includes(l, "skipped") THEN "warning"
  ELSE "ok"

permuted(lines, p) == [i \in 1..Len(lines) |-> lines[p[i]]]

\* C9: a Section's status is a function of its set of lines, in priority
\* order error, warning, ok; it does not depend on the order of the lines, and
\* a Section with a 'skipped' line and no error marker is 'warning'.
C9_StatusFromLineSet ==
  stage = "parsed" =>
    \A k \in 1..Len(parsed) :
      /\ parsed[k].status = statusOfLines(Range(parsed[k].lines))
      /\ \A p \in Permutations(1..Len(parsed[k].lines)) :
           parseSections(<<<<"## ", "Codex">>>> \o permuted(parsed[k].lines, p))[1].status
             = parsed[k].status

\* a 'skipped' line that is not the first line of its Section, no error marker
C9_Witness ==
  /\ stage = "parsed"
  /\ \E k \in 1..Len(parsed) :
       /\ parsed[k].status = "warning"
       /\ Len(parsed[k].lines) >= 2
       /\ ~includes(parsed[k].lines[1], "skipped")

\* C10: healthScore is an integer in [0,100], and improving one Section's
\* status (error to warning, warning to ok) never decreases the score.
C10_ScoreBoundedMonotone ==
  /\ [](stage \in {"scored", "improved"} => health \in 0..100)
  /\ [][stage' = "improved" => health' >= health]_vars

\* four Sections, one improved from error to warning: 2.5 of 4 points
C10_Witness ==
  /\ stage = "improved"
  /\ Len(parsed) = 4
  /\ health = 63

countOf(sections, status) ==
  Cardinality({k \in 1..Len(sections) : sections[k].status = status})

\* r is the integer nearest to num/den, the upper one when two are as near
nearestHalfUp(r, num, den) ==
  /\ (2 * r - 1) * den <= 2 * num
  /\ 2 * num < (2 * r + 1) * den

namedLike(sections, label) ==
  {k \in 1..Len(sections) : lowerLine(sections[k].name) = lowerLine(<<label>>)}

\* C12: buildProviderSummaries yields one summary per provider, in the order
\* of the provider list, whatever the Section list holds; a summary carries the
\* first Section named like the provider's label ignoring case, and when there
\* is none it carries no Section and a null average-remaining.
C12_OneSummaryPerProvider ==
  stage = "joined" =>
    /\ Len(summaries) = Len(providers)
    /\ \A i \in 1..Len(providers) :
         LET hits == namedLike(parsed, providers[i])
         IN /\ summaries[i].provider = providers[i]
            /\ IF hits = {}
               THEN summaries[i].section = <<>> /\ summaries[i].avgRemaining = <<>>
               ELSE \E k \in hits :
                      /\ \A j \in hits : k <= j
                      /\ summaries[i].section = <<parsed[k]>>

\* 'CODEX' precedes 'Codex', 'Codex CLI' comes first, nothing is named Gemini
C12_Witness ==
  /\ stage = "joined"
  /\ Len(providers) = 3
  /\ Len(parsed) = 4
  /\ parsed[1].name = <<"Codex", " ", "CLI">>
  /\ parsed[2].name = <<"CODEX">>
  /\ parsed[3].name = <<"Codex">>
  /\ summaries[1].section = <<>>
  /\ summaries[2].section = <<parsed[2]>>
  /\ summaries[3].section = <<>>

\* the percentage the pattern captures on a line, <<>> when it captures none
capturedOn(line) ==
  CASE line = <<"Premium", " ", "80%", " ", "remaining">> -> <<80>>
    [] line = <<"60%", " ", "Remaining">> -> <<60>>
    [] line = <<"40%", " ", " ", "remaining", "(3/10)">> -> <<40>>
    [] line = <<"250%", " ", "remaining">> -> <<250>>
    [] line = <<"1%", " ", "remaining", " ", "80%", " ", "remaining">> -> <<1>>
    [] OTHER -> <<>>

capturing(lines) == {k \in 1..Len(lines) : capturedOn(lines[k]) /= <<>>}

RECURSIVE clampedTotal(_, _)
clampedTotal(lines, ks) ==
  IF ks = {} THEN 0
  ELSE LET k == CHOOSE x \in ks : TRUE
           v == capturedOn(lines[k])[1]
       IN (IF v > 100 THEN 100 ELSE v) + clampedTotal(lines, ks \ {k})

C14_SelectionInRange ==
  IF Len(providers) > 0
  THEN selectedIndex \in 0..(Len(providers) - 1)
  ELSE selectedIndex = 0

\* 'left' from index 0 of three providers, after a refresh has completed
C14_Witness ==
  /\ Len(providers) = 3
  /\ state.status \notin {"idle", "loading"}
  /\ lastEvent = "left"
  /\ selectedIndex = 2

\* C15: with n > 0 providers the right key moves the selection from i to
\* (i + 1) mod n and the left key to (i - 1 + n) mod n, and k presses of the
\* right key in a row move it from i to (i + k) mod n.
C15_SelectionCyclic ==
  /\ [][KeyRight /\ Len(providers) > 0
          => selectedIndex' = (selectedIndex + 1) % Len(providers)]_vars
  /\ [][KeyLeft /\ Len(providers) > 0
          => selectedIndex' = (selectedIndex - 1 + Len(providers)) % Len(providers)]_vars
  /\ [](lastEvent = "right" /\ Len(providers) > 0
          => selectedIndex = (runStart + runLen) % Len(providers))

\* four presses of the right key from index 2 of three providers
C15_Witness ==
  /\ Len(providers) = 3
  /\ lastEvent = "right"
  /\ runStart = 2
  /\ runLen = 4
  /\ selectedIndex = 0

\* C16: on every frame the scroll offset is between 0 and
\* max(0, totalLines - visibleHeight) of the Section and the terminal height
\* that frame shows.
C16_OffsetWithinFrame ==
  shown.detailOffset \in
    0..maxOffsetOf(shown.state, shown.selectedIndex, shown.terminal)

\* C17: once a left or right key press has been handled and rendered, the
\* scroll offset is 0.
C17_SelectionKeyResetsOffset ==
  (Idle /\ lastEvent \in {"left", "right"}) => detailOffset = 0

totalLines == Len(detailLines(state, selectedIndex))

visibleHeight == detailHeight(terminal)

scrollLimit == IF totalLines > visibleHeight THEN totalLines - visibleHeight ELSE 0

\* C18: the down key sets the offset to min(offset + 1, maxOffset) and the up
\* key to max(offset - 1, 0), maxOffset being max(0, totalLines - visibleHeight);
\* a down press on content that fits the visible height leaves the offset at 0.
C18_ScrollByOne ==
  /\ [][KeyDown => detailOffset' = (IF detailOffset + 1 < scrollLimit
                                     THEN detailOffset + 1 ELSE scrollLimit)]_vars
  /\ [][KeyUp => detailOffset' = (IF detailOffset > 1
                                   THEN detailOffset - 1 ELSE 0)]_vars
  /\ [][KeyDown /\ totalLines <= visibleHeight
          => detailOffset = 0 /\ detailOffset' = 0]_vars

\* a down press at the end of a Section three lines longer than the panel
C18_Witness ==
  /\ Idle
  /\ lastEvent = "down"
  /\ maxOffset = 3
  /\ detailOffset = 3

\* C19: the left, right, up, down, page-up and page-down keys, the tab key of
\* the legacy dashboard and terminal resizes change neither the Snapshot, the
\* in-flight flag, the refresh timer nor the fan-outs, and so does every step
\* that changes the selection, the scroll offset or the terminal size.
C19_NavigationStartsNoFanout ==
  /\ [][(\/ KeyLeft \/ KeyRight \/ KeyUp \/ KeyDown \/ KeyPageUp \/ KeyPageDown
         \/ Resize \/ LegacyTab
         \/ \E delta \in {-10, -1, 1, 10} : LegacyScroll(delta))
          => UNCHANGED <<state, inflight, timer, fanouts>>]_vars
  /\ [][(\/ selectedIndex' /= selectedIndex
         \/ detailOffset' /= detailOffset
         \/ terminal' /= terminal)
          => UNCHANGED <<state, inflight, timer, fanouts>>]_vars

\* the selection has moved while the queries of the first refresh are pending
\* and the screen shows the loading state
C19_Witness ==
  /\ inflight
  /\ Len(fanouts) = 1
  /\ PendingIn(fanouts[1]) /= {}
  /\ shown.state.status = "loading"
  /\ shown.selectedIndex = 0
  /\ selectedIndex = 1

(***************************************************************************)
(* Property of the 'run once' mode.                                        *)
(***************************************************************************)
\* C20: a 'run once' process starts one fan-out and no other, with one query
\* per provider, and its exit code is 1 when the status of the resulting
\* Snapshot is 'error' and 0 otherwise.
C20_OnceExitCode ==
  /\ Len(fanouts) <= 1
  /\ exitCode /= <<>> =>
       /\ Len(fanouts) = 1
       /\ Len(fanouts[1].queries) = Len(providers)
       /\ fanouts[1].pc = "done"
       /\ state.status \in {"ok", "error"}
       /\ state.status = "error" => exitCode = <<1>>
       /\ state.status /= "error" => exitCode = <<0>>

\* four providers queried once each, one of them failed
C20_Witness ==
  /\ Len(providers) = 4
  /\ exitCode = <<1>>
  /\ state.status = "error"
  /\ Len(fanouts) = 1
  /\ PendingIn(fanouts[1]) = {}
  /\ ~inflight

\* the delay of the refresh timer once it is set
timerDelay == autoRefreshMs[1]

\* C21: for every value of AGENT_STATUS_REFRESH_MS, unset, numeric or not, the
\* interval handed to the refresh timer is a number of at least 5000 ms
C21_IntervalAtLeastFloor ==
  timer = 1 => (~timerDelay.nan /\ timerDelay.val >= 5000)

\* the mode the breakpoints select
modeAt(cols, rows) ==
  IF cols >= 155 /\ rows >= 34 THEN "studio"
  ELSE IF cols >= 120 THEN "dual"
  ELSE IF cols < 98 THEN "focus"
  ELSE "stack"

\* C22: whatever the earlier layout was, a layout call chooses the mode from
\* the columns and rows alone: studio from 155 x 34, else dual from 120
\* columns, else focus below 98 columns, else stack
C22_ModeByBreakpoints ==
  [][layout'.mode = modeAt(terminal'.width, terminal'.height)]_vars

\* a stack layout one column below the dual breakpoint, on a screen high
\* enough for studio, laid out after a studio layout was left
C22_Witness ==
  /\ terminal = [width |-> 119, height |-> 34]
  /\ layout.mode = "stack"
  /\ layout.insights.hidden
  /\ layout.insights.width = cells(railWidth(155))

abs(x) == IF x < 0 THEN 0 - x ELSE x

stackTop == layout.copilotPanel.height.value

stackBottom == layout.codexPanel.height.value

\* C23: in stack mode the two panel heights sum to the body height, each is
\* at least 8 rows, and unless a floor applies the top height is the body
\* height times max(10, top lines) / (max(10, top lines) + max(10, bottom lines)),
\* rounded
C23_StackHeights ==
  layout.mode = "stack" =>
    LET body == max(8, terminal.height - 8)
        top == max(10, panelLines[1])
        total == top + max(10, panelLines[2])
    IN /\ stackTop + stackBottom = body
       /\ stackTop >= 8
       /\ stackBottom >= 8
       /\ (stackTop > 8 /\ stackBottom > 8) => 2 * abs(stackTop * total - top * body) <= total

\* C24: no sample is appended for the loading state of a refresh, and a step
\* appends at most one sample
C24_NoSampleOnLoading ==
  /\ [][healthHistory' /= healthHistory => lastHistoryKey'[1] /= "loading"]_vars
  /\ [][Len(healthHistory') <= Len(healthHistory) + 1]_vars

\* C25: a sample is appended only when the triple of status, timestamp and
\* score differs from the triple of the last sample; a paint of the triple of
\* the last sample (after a resize, a selection change, a scroll) appends nothing
C25_SampleOnlyOnNewTriple ==
  /\ [][healthHistory' /= healthHistory => lastHistoryKey' /= lastHistoryKey]_vars
  /\ [][historyKey(state', scoreOf(state')) = lastHistoryKey
          => healthHistory' = healthHistory]_vars

\* a scroll has been rendered by the React dashboard and the full history
\* still starts with its first sample
C25_Witness ==
  /\ impl = "react"
  /\ Idle
  /\ shown.detailOffset = 1
  /\ Len(healthHistory) = 200
  /\ healthHistory[1] = 50

\* C26: the history holds at most 200 samples in the React dashboard and 120
\* in the legacy one; a sample appended to a full history removes the oldest
\* sample and nothing else, and the order of the samples is kept
C26_HistoryBounded ==
  /\ [](Len(healthHistory) <= (IF impl = "react" THEN 200 ELSE 120))
  /\ [][lastHistoryKey' /= lastHistoryKey =>
          healthHistory' = (IF Len(healthHistory) = (IF impl = "react" THEN 200 ELSE 120)
                            THEN Tail(healthHistory) \o <<lastHistoryKey'[3]>>
                            ELSE healthHistory \o <<lastHistoryKey'[3]>>)]_vars

\* the full history of the legacy dashboard has lost its oldest sample to the
\* score of a completed refresh
C26_Witness ==
  /\ impl = "legacy"
  /\ Len(healthHistory) = 120
  /\ healthHistory[1] = 100
  /\ healthHistory[119] = 100
  /\ Len(fanouts) = 2
  /\ fanouts[2].pc = "done"
  /\ healthHistory[120] = scoreOf(state)

\* the step the claim gives to the page keys
halfHeight == detailHeight(terminal) \div 2

\* C27 as stated: page-down adds floor(visible height / 2) to the offset and
\* page-up subtracts it, the result being clamped to 0..maxOffset
C27_PageByHalfHeight ==
  /\ [][KeyPageDown => detailOffset' = clamp(detailOffset + halfHeight, 0, scrollLimit)]_vars
  /\ [][KeyPageUp => detailOffset' = clamp(detailOffset - halfHeight, 0, scrollLimit)]_vars

\* three lines when half the height is less
pageLines == IF halfHeight < 3 THEN 3 ELSE halfHeight

\* C27, amended: page-down adds max(3, floor(visible height / 2)) to the
\* offset and page-up subtracts it, the result being clamped to 0..maxOffset
C27_PageByHalfHeightAtLeastThree ==
  /\ [][KeyPageDown => detailOffset' = clamp(detailOffset + pageLines, 0, scrollLimit)]_vars
  /\ [][KeyPageUp => detailOffset' = clamp(detailOffset - pageLines, 0, scrollLimit)]_vars

\* a page-down from the top on a panel of five lines has moved three lines
C27_Witness ==
  /\ Idle
  /\ lastEvent = "pagedown"
  /\ visibleHeight = 5
  /\ scrollLimit = 3
  /\ detailOffset = 3

\* the queries of the newest fan-out are all pending
newestPending(fs) ==
  \A i \in 1..Len(fs[Len(fs)].queries) : fs[Len(fs)].queries[i].settled = "pending"

\* C28: a refresh that is triggered while no fan-out is in flight sets the
\* status to loading with a non-empty message while every query is still
\* pending, keeps the content and the timestamp of the Snapshot, which stay
\* as they are while the status is loading, and keeps the selection and the
\* scroll offset
C28_LoadingKeepsSnapshot ==
  /\ [][(~inflight /\ inflight') =>
          /\ state'.status = "loading"
          /\ state'.message /= <<>>
          /\ newestPending(fanouts')
          /\ state'.content = state.content
          /\ state'.lastUpdated = state.lastUpdated
          /\ selectedIndex' = selectedIndex
          /\ detailOffset' = detailOffset]_vars
  /\ [][(state.status = "loading" /\ state'.status = "loading") =>
          /\ state'.content = state.content
          /\ state'.lastUpdated = state.lastUpdated]_vars

\* a refresh is loading over the report of the last refresh, the second
\* provider selected and the panel scrolled by one line
C28_Witness ==
  /\ impl = "react"
  /\ inflight
  /\ state.status = "loading"
  /\ state.lastUpdated = 1
  /\ state.content /= EmptyString
  /\ Len(fanouts) = 2
  /\ newestPending(fanouts)
  /\ shown.state.status = "loading"
  /\ detailOffset = 1

\* the reserve the claim gives for the width
reserve(width) == IF width < 78 THEN 19 ELSE IF width < 112 THEN 22 ELSE 12

densityFlags ==
  /\ micro(shown.terminal) <=> shown.terminal.width < 58
  /\ tiny(shown.terminal) <=> shown.terminal.width < 78
  /\ compact(shown.terminal) <=> shown.terminal.width < 112
  /\ micro(shown.terminal) => tiny(shown.terminal)
  /\ tiny(shown.terminal) => compact(shown.terminal)

reservedHeight ==
  /\ detailHeight(shown.terminal) >= 5
  /\ detailHeight(shown.terminal) =
       (IF shown.terminal.height - reserve(shown.terminal.width) > 5
        THEN shown.terminal.height - reserve(shown.terminal.width) ELSE 5)

painted == lastHistoryKey /= <<>>

bothPanelsVisible(l) == ~l.copilotPanel.hidden /\ ~l.codexPanel.hidden

\* the visibility and the widths the claim gives for the mode
visibilityMatches ==
  /\ layout.mode = modeAt(terminal.width, terminal.height)
  /\ ~layout.insights.hidden <=> layout.mode = "studio"
  /\ layout.mode = "focus" =>
       /\ layout.copilotPanel.hidden <=> selectedIndex /= 0
       /\ layout.codexPanel.hidden <=> selectedIndex /= 1
  /\ layout.mode \in {"studio", "dual", "stack"} => bothPanelsVisible(layout)
  /\ layout.mode = "dual" =>
       /\ layout.copilotPanel.width.unit = "cells"
       /\ layout.codexPanel.width.unit = "cells"
       /\ layout.copilotPanel.width.value + layout.codexPanel.width.value = terminal.width
  /\ layout.mode = "studio" =>
       /\ layout.copilotPanel.width = layout.codexPanel.width
       /\ layout.copilotPanel.width.unit = "cells"
       /\ layout.insights.width.unit = "cells"
       /\ layout.copilotPanel.width.value + layout.insights.width.value = terminal.width

\* C30: once the dashboard has painted, after every resize, tab and refresh
\* the insights rail is visible exactly in studio mode, focus mode shows the
\* selected panel and hides the other, the other modes show both panels, also
\* in the step that leaves focus mode, and the widths of the columns of the
\* studio and dual layouts add up to the terminal width
C30_VisibilityMatchesMode ==
  /\ [](painted => visibilityMatches)
  /\ [][(layout.mode = "focus" /\ layout'.mode /= "focus")
          => bothPanelsVisible(layout')]_vars

\* a stack layout with the second panel selected, after a studio layout and
\* with the report of a refresh on screen
C30_Witness ==
  /\ painted
  /\ layout.mode = "stack"
  /\ selectedIndex = 1
  /\ bothPanelsVisible(layout)
  /\ layout.insights.hidden
  /\ layout.insights.width = cells(railWidth(160))
  /\ layout.copilotPanel.width = percent(100)
  /\ state.status = "ok"
  /\ panelLines[1] > 10
====
